---- MODULE Spec2Model ----
(***************************************************************************)
(* Task Management API (Flask + SQLAlchemy over SQLite).                   *)
(*                                                                         *)
(* The store is the three tables of models.py.  Every request handler of   *)
(* app.py is one operator that maps (store, request) to (response, store)  *)
(* and one action that applies it.  Text is modelled as a sequence of      *)
(* character codes so that case folding, emptiness and the collation of    *)
(* stored labels are computed, not assumed.                                *)
(***************************************************************************)
EXTENDS Integers, Sequences, FiniteSets, TLC

(***************************************************************************)
(* Bounds of the model.                                                    *)
(***************************************************************************)
\* ids that requests may name and that rows may get
MaxId == 2
\* number of requests in one behaviour (the clock advances once per request)
MaxClock == 2
\* number of optional body fields in a POST or PUT; a PATCH body and a query
\* string have at most one key more
MaxOptional == 1

Ids == 1..MaxId

VARIABLES
    users,        \* rows of table users
    categories,   \* rows of table categories
    tasks,        \* rows of table tasks
    now,          \* the value datetime.utcnow() returns to the next request
    req,          \* the last request
    resp,         \* the response to the last request
    prev,         \* the store before the last request
    inflight      \* the requests being served at the same time, each with the
                  \* place its handler has reached; << >> when requests are
                  \* served one after the other

vars == <<users, categories, tasks, now, req, resp, prev, inflight>>

(***************************************************************************)
(* Text: sequences of character codes.                                     *)
(***************************************************************************)
s_empty == << >>
s_PENDING == <<80,69,78,68,73,78,71>>
s_IN_PROGRESS == <<73,78,95,80,82,79,71,82,69,83,83>>
s_COMPLETED == <<67,79,77,80,76,69,84,69,68>>
s_LOW == <<76,79,87>>
s_MEDIUM == <<77,69,68,73,85,77>>
s_HIGH == <<72,73,71,72>>
s_pending == <<112,101,110,100,105,110,103>>
s_in_progress == <<105,110,95,112,114,111,103,114,101,115,115>>
s_completed == <<99,111,109,112,108,101,116,101,100>>
s_low == <<108,111,119>>
s_medium == <<109,101,100,105,117,109>>
s_high == <<104,105,103,104>>
s_Completed == <<67,111,109,112,108,101,116,101,100>>
s_bogus == <<98,111,103,117,115>>
s_Bogus == <<66,111,103,117,115>>
s_High == <<72,105,103,104>>
s_hIgH == <<104,73,103,72>>
s_Medium == <<77,101,100,105,117,109>>
s_In_Progress == <<73,110,95,80,114,111,103,114,101,115,115>>
s_in_progre_sharp_s == <<105,110,95,112,114,111,103,114,101,223>>
s_IN_PROGRE_SHARP_S == <<73,78,95,80,82,79,71,82,69,7838>>
s_in_progre_long_s == <<105,110,95,112,114,111,103,114,101,383,115>>
s_pend_dotless_i_ng == <<112,101,110,100,305,110,103>>
s_date1 == <<50,48,50,52,45,48,49,45,48,49>>
s_date2Z == <<50,48,50,52,45,48,49,45,48,50,84,48,48,58,48,48,58,48,48,90>>
s_date2utc == <<50,48,50,52,45,48,49,45,48,50,84,48,48,58,48,48,58,48,48,43,48,48,58,48,48>>
s_tomorrow == <<116,111,109,111,114,114,111,119>>
s_utc == <<43,48,48,58,48,48>>
s_t == <<116>>
s_u == <<117>>
s_d == <<100>>
s_e == <<101>>
s_n == <<110>>
s_a == <<97>>
s_asc == <<97,115,99>>
s_desc == <<100,101,115,99>>
s_ASC == <<65,83,67>>
s_up == <<117,112>>
s_priority == <<112,114,105,111,114,105,116,121>>
s_status == <<115,116,97,116,117,115>>
s_due_date == <<100,117,101,95,100,97,116,101>>
s_created_at == <<99,114,101,97,116,101,100,95,97,116>>
s_updated_at == <<117,112,100,97,116,101,100,95,97,116>>
s_title == <<116,105,116,108,101>>

\* str.upper() and str.lower(): the ASCII letters, and the letters outside
\* ASCII whose upper-case form is made of ASCII letters or whose lower-case
\* form is one of those: U+00DF (sharp s) -> "SS", U+017F (long s) -> "S",
\* U+0131 (dotless i) -> "I"; U+1E9E (capital sharp s) -> U+00DF.  Every
\* other character of the model is left as it is.
upper_char(c) ==
    IF c \in 97..122 THEN <<c - 32>>
    ELSE IF c = 223 THEN <<83, 83>>
    ELSE IF c = 383 THEN <<83>>
    ELSE IF c = 305 THEN <<73>>
    ELSE <<c>>

lower_char(c) ==
    IF c \in 65..90 THEN <<c + 32>>
    ELSE IF c = 7838 THEN <<223>>
    ELSE <<c>>

RECURSIVE upper(_)
upper(s) == IF s = << >> THEN << >> ELSE upper_char(Head(s)) \o upper(Tail(s))

RECURSIVE lower(_)
lower(s) == IF s = << >> THEN << >> ELSE lower_char(Head(s)) \o lower(Tail(s))

\* str.replace('Z', '+00:00')
RECURSIVE replace_Z(_)
replace_Z(s) ==
    IF s = << >> THEN << >>
    ELSE (IF Head(s) = 90 THEN s_utc ELSE <<Head(s)>>) \o replace_Z(Tail(s))

\* The order SQLite's ORDER BY puts on stored values: NULL (the empty
\* sequence) first, text by its bytes (BINARY collation), timestamps by value.
RECURSIVE LexLess(_, _)
LexLess(a, b) ==
    IF b = << >> THEN FALSE
    ELSE IF a = << >> THEN TRUE
    ELSE IF Head(a) # Head(b) THEN Head(a) < Head(b)
    ELSE LexLess(Tail(a), Tail(b))

(***************************************************************************)
(* JSON values of a request body.                                          *)
(***************************************************************************)
JStr(s) == [k |-> "str", s |-> s, n |-> 0]
JInt(n) == [k |-> "int", s |-> << >>, n |-> n]
JBool(b) == [k |-> "bool", s |-> << >>, n |-> IF b THEN 1 ELSE 0]
JNull == [k |-> "null", s |-> << >>, n |-> 0]

\* data[field] == ''
IsEmptyStr(v) == v.k = "str" /\ v.s = << >>
\* a nullable column: NULL is << >>, a value v is <<v>>
NULL == << >>

(***************************************************************************)
(* models.py: the enumerations, members in declaration order.              *)
(***************************************************************************)
TaskStatus ==
    << [name |-> s_PENDING, value |-> s_pending],
       [name |-> s_IN_PROGRESS, value |-> s_in_progress],
       [name |-> s_COMPLETED, value |-> s_completed] >>

TaskPriority ==
    << [name |-> s_LOW, value |-> s_low],
       [name |-> s_MEDIUM, value |-> s_medium],
       [name |-> s_HIGH, value |-> s_high] >>

\* enum_class[name]: the set of members of that name (empty: KeyError)
Members(enum_class, name) ==
    {enum_class[i] : i \in {j \in 1..Len(enum_class) : enum_class[j].name = name}}

\* the position of a stored label in the declaration order (0: no member)
Ordinal(enum_class, name) ==
    IF \E i \in 1..Len(enum_class) : enum_class[i].name = name
    THEN CHOOSE i \in 1..Len(enum_class) : enum_class[i].name = name
    ELSE 0

\* member.value of the member stored under a label
ValueOf(enum_class, name) ==
    IF Ordinal(enum_class, name) = 0 THEN name
    ELSE enum_class[Ordinal(enum_class, name)].value

(***************************************************************************)
(* app.py: helper functions.                                               *)
(***************************************************************************)
\* the missing fields, in the order of required_fields
RECURSIVE missing_fields(_, _)
missing_fields(data, required_fields) ==
    IF required_fields = << >> THEN << >>
    ELSE (IF Head(required_fields) \notin DOMAIN data
             \/ IsEmptyStr(data[Head(required_fields)])
          THEN <<Head(required_fields)>> ELSE << >>)
         \o missing_fields(data, Tail(required_fields))

\* a validation that stops at the first missing field
validate_required_fields_first(data, required_fields) ==
    LET missing == missing_fields(data, required_fields)
    IN  IF missing # << >>
        THEN [ok |-> FALSE, error |-> "Missing required fields", fields |-> <<missing[1]>>]
        ELSE [ok |-> TRUE, error |-> "", fields |-> << >>]

validate_required_fields(data, required_fields) ==
    LET missing == missing_fields(data, required_fields)
    IN  IF missing # << >>
        THEN [ok |-> FALSE, error |-> "Missing required fields", fields |-> missing]
        ELSE [ok |-> TRUE, error |-> "", fields |-> << >>]

\* What a handler holds for an enum field after validation: an enum member
\* (t = "member"), None (t = "none"), or the payload's value passed through
\* untouched because it is not a string (t = "raw").
EnumMember(name) == [t |-> "member", name |-> name, raw |-> JNull]
EnumNone == [t |-> "none", name |-> << >>, raw |-> JNull]
EnumRaw(v) == [t |-> "raw", name |-> << >>, raw |-> v]

validate_enum_value(value, enum_class, field_name) ==
    IF value.k = "null"
    THEN [ok |-> TRUE, error |-> "", field |-> "", enum_value |-> EnumNone]
    ELSE IF value.k = "str"
    THEN IF Members(enum_class, upper(value.s)) # {}
         THEN [ok |-> TRUE, error |-> "", field |-> "",
               enum_value |-> EnumMember(upper(value.s))]
         ELSE [ok |-> FALSE, error |-> "Invalid enum value", field |-> field_name,
               enum_value |-> EnumNone]
    ELSE [ok |-> TRUE, error |-> "", field |-> "", enum_value |-> EnumRaw(value)]

\* datetime.fromisoformat on the date texts of the model: <<day>>, or NULL
\* for a ValueError
fromisoformat(s) ==
    IF s = s_date1 THEN <<1>>
    ELSE IF s = s_date2utc THEN <<2>>
    ELSE NULL

parse_datetime(date_string) ==
    IF date_string.k = "null" \/ IsEmptyStr(date_string)
       \/ (date_string.k \in {"int", "bool"} /\ date_string.n = 0)
    THEN NULL
    ELSE IF date_string.k = "str"
    THEN fromisoformat(replace_Z(date_string.s))
    ELSE NULL

(***************************************************************************)
(* Responses.  status is the HTTP status code; error is the message class  *)
(* of the {error: ...} envelope; body is the sequence of returned rows.    *)
(***************************************************************************)
Ok(code, body) ==
    [status |-> code, error |-> "", field |-> "", fields |-> << >>, body |-> body]
Error(code, msg) ==
    [status |-> code, error |-> msg, field |-> "", fields |-> << >>, body |-> << >>]
ErrorInvalid(v) ==
    [status |-> 400, error |-> v.error, field |-> v.field, fields |-> << >>,
     body |-> << >>]
ErrorMissing(v) ==
    [status |-> 400, error |-> v.error, field |-> "", fields |-> v.fields,
     body |-> << >>]

Result(r, d) == [resp |-> r, db |-> d]

(***************************************************************************)
(* database.py and the SQLAlchemy session: the unit of work.               *)
(*                                                                         *)
(* A handler changes the objects of its session; db.commit() flushes them  *)
(* to the tables, db.rollback() and db.close() drop what was not           *)
(* committed.  persisted is the content of the tables, session the content *)
(* the session would write.                                                *)
(***************************************************************************)
Store(u, c, t) == [users |-> u, categories |-> c, tasks |-> t]

\* the rowid SQLite gives the next INSERT: the tables are created without
\* AUTOINCREMENT, so it is max(rowid) + 1
NextId(rows) ==
    IF rows = {} THEN 1
    ELSE (CHOOSE r \in rows : \A q \in rows : q.id <= r.id).id + 1

\* The Task objects of a session carry status and priority as the handler
\* assigned them (EnumMember, EnumNone or EnumRaw); a row carries the label
\* the Enum column stores, which is the member's name.
task_object(row) ==
    [row EXCEPT !.status = EnumMember(@), !.priority = EnumMember(@)]

\* The INSERT or UPDATE of one Task object.  A value that is no member makes
\* the Enum type raise LookupError (a StatementError); None is left out of an
\* INSERT, so that the column default applies, and is NULL in an UPDATE, which
\* the NOT NULL column refuses (an IntegrityError).
flush_enum(enum_value, is_insert, default) ==
    IF enum_value.t = "member" THEN [ok |-> TRUE, error |-> "", label |-> enum_value.name]
    ELSE IF enum_value.t = "none"
    THEN IF is_insert THEN [ok |-> TRUE, error |-> "", label |-> default]
         ELSE [ok |-> FALSE, error |-> "IntegrityError", label |-> default]
    ELSE [ok |-> FALSE, error |-> "StatementError", label |-> default]

\* db.commit(): flush the dirty Task objects of the session to the table
flush_tasks(persisted, dirty) ==
    LET is_insert(o) == \A r \in persisted.tasks : r.id # o.id
        st(o) == flush_enum(o.status, is_insert(o), s_PENDING)
        pr(o) == flush_enum(o.priority, is_insert(o), s_MEDIUM)
        row(o) == [o EXCEPT !.status = st(o).label, !.priority = pr(o).label]
        bad == {o \in dirty : ~st(o).ok \/ ~pr(o).ok}
    IN  IF bad # {}
        THEN [ok |-> FALSE, db |-> persisted]
        ELSE [ok |-> TRUE,
              db |-> [persisted EXCEPT !.tasks =
                        {r \in @ : \A o \in dirty : o.id # r.id}
                        \cup {row(o) : o \in dirty}]]

\* db_close with the slip of flushing what the session holds before it is dropped
db_close_flushes(persisted, dirty) == flush_tasks(persisted, dirty).db

\* db.close() in the finally clause of every handler: the objects the session
\* holds are dropped, what was not committed is not written
db_close(persisted, dirty) == persisted

\* db.rollback() in the except clauses
db_rollback(persisted) == persisted

\* engine = create_engine('sqlite:///...') issues no PRAGMA foreign_keys=ON:
\* SQLite does not check the FOREIGN KEY clauses of the tables
foreign_keys_enforced == FALSE

fk_violated(session) ==
    /\ foreign_keys_enforced
    /\ \/ \E c \in session.categories : \A u \in session.users : u.id # c.user_id
       \/ \E t \in session.tasks :
             \/ \A u \in session.users : u.id # t.user_id
             \/ \A c \in session.categories : c.id # t.category_id

\* by_id with the filter left out: first() of the whole table
by_id_unfiltered(rows, value) == rows

\* db.query(Model).filter(Model.id == value).first(): the rows found
by_id(rows, value) == {r \in rows : value.k = "int" /\ r.id = value.n}

(***************************************************************************)
(* models.py: to_dict                                                      *)
(***************************************************************************)
user_to_dict(u) == u
category_to_dict(c) == c
task_to_dict(t) ==
    [t EXCEPT !.status = ValueOf(TaskStatus, t.status),
              !.priority = ValueOf(TaskPriority, t.priority)]

(***************************************************************************)
(* app.py: user endpoints                                                  *)
(***************************************************************************)
\* the UNIQUE constraint left off the column: no INSERT is refused
unique_unchecked(rows, username) == FALSE

\* username = Column(String(80), unique=True): the INSERT of a second row with
\* the same text raises IntegrityError
unique_violation(rows, username) == \E u \in rows : u.username = username

create_user(db, data, t) ==
    IF DOMAIN data = {} THEN Result(Error(400, "No data provided"), db_close(db, {}))
    ELSE
    LET v == validate_required_fields(data, <<"username", "email">>) IN
    IF ~v.ok THEN Result(ErrorMissing(v), db_close(db, {}))
    ELSE
    LET new_user == [id |-> NextId(db.users), username |-> data["username"].s,
                     email |-> data["email"].s, created_at |-> t]
        session == [db EXCEPT !.users = @ \cup {new_user}]
    IN  IF unique_violation(db.users, new_user.username)
        THEN Result(Error(400, "Username already exists"), db_rollback(db))
        ELSE Result(Ok(201, <<user_to_dict(new_user)>>), session)

get_user(db, user_id) ==
    LET found == {u \in db.users : u.id = user_id} IN
    IF found = {} THEN Result(Error(404, "User not found"), db_close(db, {}))
    ELSE Result(Ok(200, <<user_to_dict(CHOOSE u \in found : TRUE)>>), db_close(db, {}))

\* db.query(User).all(): the rows in rowid order
RECURSIVE rows_by_id(_)
rows_by_id(rows) ==
    IF rows = {} THEN << >>
    ELSE LET r == CHOOSE x \in rows : \A q \in rows : x.id <= q.id
         IN  <<r>> \o rows_by_id(rows \ {r})

get_all_users(db) == Result(Ok(200, rows_by_id(db.users)), db_close(db, {}))

(***************************************************************************)
(* app.py: category endpoints                                              *)
(***************************************************************************)
\* data.get(key, default) for a text field
get_text(data, key, default) == IF key \in DOMAIN data THEN data[key].s ELSE default

\* create_category with the user looked up before the fields are validated
create_category_lookup_first(db, data) ==
    IF DOMAIN data = {} THEN Result(Error(400, "No data provided"), db_close(db, {}))
    ELSE IF {u \in db.users : "user_id" \in DOMAIN data /\ data["user_id"].k = "int"
                                /\ u.id = data["user_id"].n} = {}
    THEN Result(Error(404, "User not found"), db_close(db, {}))
    ELSE
    LET v == validate_required_fields(data, <<"name", "user_id">>) IN
    IF ~v.ok THEN Result(ErrorMissing(v), db_close(db, {}))
    ELSE
    LET new_category == [id |-> NextId(db.categories), name |-> data["name"].s,
                         description |-> get_text(data, "description", s_empty),
                         user_id |-> data["user_id"].n]
    IN  Result(Ok(201, <<category_to_dict(new_category)>>),
               [db EXCEPT !.categories = @ \cup {new_category}])

create_category(db, data) ==
    IF DOMAIN data = {} THEN Result(Error(400, "No data provided"), db_close(db, {}))
    ELSE
    LET v == validate_required_fields(data, <<"name", "user_id">>) IN
    IF ~v.ok THEN Result(ErrorMissing(v), db_close(db, {}))
    ELSE IF by_id(db.users, data["user_id"]) = {}
    THEN Result(Error(404, "User not found"), db_close(db, {}))
    ELSE
    LET new_category == [id |-> NextId(db.categories), name |-> data["name"].s,
                         description |-> get_text(data, "description", s_empty),
                         user_id |-> data["user_id"].n]
        session == [db EXCEPT !.categories = @ \cup {new_category}]
    IN  IF fk_violated(session)
        THEN Result(Error(500, "Database error"), db_rollback(db))
        ELSE Result(Ok(201, <<category_to_dict(new_category)>>), session)

get_category(db, category_id) ==
    LET found == {c \in db.categories : c.id = category_id} IN
    IF found = {} THEN Result(Error(404, "Category not found"), db_close(db, {}))
    ELSE Result(Ok(200, <<category_to_dict(CHOOSE c \in found : TRUE)>>),
                db_close(db, {}))

\* request.args.get(key, type=int): the digits of the text as a number,
\* << >> when the parameter is absent or is not a number
RECURSIVE digits_value(_, _)
digits_value(s, acc) ==
    IF s = << >> THEN acc ELSE digits_value(Tail(s), 10 * acc + (Head(s) - 48))

args_get_int(args, key) ==
    IF key \notin DOMAIN args THEN << >>
    ELSE LET s == args[key] IN
         IF s # << >> /\ \A i \in 1..Len(s) : s[i] \in 48..57
         THEN <<digits_value(s, 0)>> ELSE << >>

\* "if user_id:" is false for None and for 0
truthy_int(x) == x # << >> /\ x[1] # 0

get_all_categories(db, args) ==
    LET user_id == args_get_int(args, "user_id")
        found == IF truthy_int(user_id)
                 THEN {c \in db.categories : c.user_id = user_id[1]}
                 ELSE db.categories
    IN  Result(Ok(200, rows_by_id(found)), db_close(db, {}))

update_category(db, category_id, data) ==
    IF DOMAIN data = {} THEN Result(Error(400, "No data provided"), db_close(db, {}))
    ELSE
    LET found == {c \in db.categories : c.id = category_id} IN
    IF found = {} THEN Result(Error(404, "Category not found"), db_close(db, {}))
    ELSE
    LET v == validate_required_fields(data, <<"name", "user_id">>) IN
    IF ~v.ok THEN Result(ErrorMissing(v), db_close(db, {}))
    ELSE
    LET category == CHOOSE c \in found : TRUE
        updated == [category EXCEPT
                      !.name = data["name"].s,
                      !.description = get_text(data, "description", category.description),
                      !.user_id = data["user_id"].n]
        session == [db EXCEPT !.categories = (@ \ {category}) \cup {updated}]
    IN  IF fk_violated(session)
        THEN Result(Error(500, "Database error"), db_rollback(db))
        ELSE Result(Ok(200, <<category_to_dict(updated)>>), session)

\* the relationship without a cascade: the tasks stay
cascade_none(db_tasks, category) == db_tasks

\* Category.tasks has cascade='all, delete-orphan': db.delete(category)
\* deletes the tasks of the category with it
cascade_category_tasks(db_tasks, category) ==
    {t \in db_tasks : t.category_id # category.id}

delete_category(db, category_id) ==
    LET found == {c \in db.categories : c.id = category_id} IN
    IF found = {} THEN Result(Error(404, "Category not found"), db_close(db, {}))
    ELSE
    LET category == CHOOSE c \in found : TRUE
        session == [db EXCEPT !.categories = @ \ {category},
                              !.tasks = cascade_category_tasks(@, category)]
    IN  Result(Ok(200, << >>), session)

(***************************************************************************)
(* app.py: task endpoints                                                  *)
(***************************************************************************)
\* data.get(key) for any JSON value: None when the key is absent
data_get(data, key) == IF key \in DOMAIN data THEN data[key] ELSE JNull

\* status = TaskStatus.PENDING, before the payload is looked at
default_status == EnumMember(s_PENDING)

\* the default taken from the first member of the enumeration
default_priority_first == EnumMember(s_LOW)

\* priority = TaskPriority.MEDIUM, before the payload is looked at
default_priority == EnumMember(s_MEDIUM)

create_task(db, data, t) ==
    IF DOMAIN data = {} THEN Result(Error(400, "No data provided"), db_close(db, {}))
    ELSE
    LET v == validate_required_fields(data, <<"title", "category_id", "user_id">>) IN
    IF ~v.ok THEN Result(ErrorMissing(v), db_close(db, {}))
    ELSE IF by_id(db.users, data["user_id"]) = {}
    THEN Result(Error(404, "User not found"), db_close(db, {}))
    ELSE IF by_id(db.categories, data["category_id"]) = {}
    THEN Result(Error(404, "Category not found"), db_close(db, {}))
    ELSE
    LET vs == IF "status" \in DOMAIN data
              THEN validate_enum_value(data["status"], TaskStatus, "status")
              ELSE [ok |-> TRUE, error |-> "", field |-> "",
                    enum_value |-> default_status]
    IN
    IF ~vs.ok THEN Result(ErrorInvalid(vs), db_close(db, {}))
    ELSE
    LET vp == IF "priority" \in DOMAIN data
              THEN validate_enum_value(data["priority"], TaskPriority, "priority")
              ELSE [ok |-> TRUE, error |-> "", field |-> "",
                    enum_value |-> default_priority]
    IN
    IF ~vp.ok THEN Result(ErrorInvalid(vp), db_close(db, {}))
    ELSE
    LET new_task == [id |-> NextId(db.tasks),
                     title |-> data["title"].s,
                     description |-> get_text(data, "description", s_empty),
                     status |-> vs.enum_value,
                     priority |-> vp.enum_value,
                     due_date |-> parse_datetime(data_get(data, "due_date")),
                     category_id |-> data["category_id"].n,
                     user_id |-> data["user_id"].n,
                     created_at |-> t,
                     updated_at |-> t]
        f == flush_tasks(db, {new_task})
    IN  IF ~f.ok \/ fk_violated(f.db)
        THEN Result(Error(500, "Database error"), db_rollback(db))
        ELSE Result(Ok(201, <<task_to_dict(CHOOSE r \in f.db.tasks : r.id = new_task.id)>>),
                    f.db)

get_task(db, task_id) ==
    LET found == {t \in db.tasks : t.id = task_id} IN
    IF found = {} THEN Result(Error(404, "Task not found"), db_close(db, {}))
    ELSE Result(Ok(200, <<task_to_dict(CHOOSE t \in found : TRUE)>>), db_close(db, {}))

update_task(db, task_id, data, t) ==
    IF DOMAIN data = {} THEN Result(Error(400, "No data provided"), db_close(db, {}))
    ELSE
    LET found == {r \in db.tasks : r.id = task_id} IN
    IF found = {} THEN Result(Error(404, "Task not found"), db_close(db, {}))
    ELSE
    LET task == task_object(CHOOSE r \in found : TRUE)
        v == validate_required_fields(data, <<"title", "category_id", "user_id">>)
    IN
    IF ~v.ok THEN Result(ErrorMissing(v), db_close(db, {}))
    ELSE
    LET vs == validate_enum_value(data_get(data, "status"), TaskStatus, "status")
        task1 == IF "status" \in DOMAIN data
                 THEN [task EXCEPT !.status = vs.enum_value] ELSE task
    IN
    IF "status" \in DOMAIN data /\ ~vs.ok
    THEN Result(ErrorInvalid(vs), db_close(db, {}))
    ELSE
    LET vp == validate_enum_value(data_get(data, "priority"), TaskPriority, "priority")
        task2 == IF "priority" \in DOMAIN data
                 THEN [task1 EXCEPT !.priority = vp.enum_value] ELSE task1
    IN
    IF "priority" \in DOMAIN data /\ ~vp.ok
    THEN Result(ErrorInvalid(vp), db_close(db, {task1} \ {task}))
    ELSE
    LET task3 == IF "due_date" \in DOMAIN data
                 THEN [task2 EXCEPT !.due_date = parse_datetime(data["due_date"])]
                 ELSE task2
        task4 == [task3 EXCEPT !.title = data["title"].s,
                               !.description = get_text(data, "description", s_empty),
                               !.category_id = data["category_id"].n,
                               !.user_id = data["user_id"].n,
                               !.updated_at = t]
        f == flush_tasks(db, {task4})
    IN  IF ~f.ok \/ fk_violated(f.db)
        THEN Result(Error(500, "Database error"), db_rollback(db))
        ELSE Result(Ok(200, <<task_to_dict(CHOOSE r \in f.db.tasks : r.id = task_id)>>),
                    f.db)

\* the assignments of partial_update_task that cannot fail
patch_title(task, data) ==
    IF "title" \in DOMAIN data THEN [task EXCEPT !.title = data["title"].s] ELSE task

\* patch_description written as update_task writes it: data.get with a default
patch_description_default(task, data) ==
    [task EXCEPT !.description = get_text(data, "description", s_empty)]

patch_description(task, data) ==
    IF "description" \in DOMAIN data
    THEN [task EXCEPT !.description = data["description"].s] ELSE task

\* a due date that is assigned only when it could be parsed
patch_due_date_if_parsed(task, data) ==
    IF "due_date" \in DOMAIN data /\ parse_datetime(data["due_date"]) # NULL
    THEN [task EXCEPT !.due_date = parse_datetime(data["due_date"])] ELSE task

patch_due_date(task, data) ==
    IF "due_date" \in DOMAIN data
    THEN [task EXCEPT !.due_date = parse_datetime(data["due_date"])] ELSE task

\* a time stamp written to created_at as well
patch_both_stamps(task, t) == [task EXCEPT !.updated_at = t, !.created_at = t]

\* task.updated_at = datetime.utcnow()
patch_updated_at(task, t) == [task EXCEPT !.updated_at = t]

partial_update_task(db, task_id, data, t) ==
    IF DOMAIN data = {} THEN Result(Error(400, "No data provided"), db_close(db, {}))
    ELSE
    LET found == {r \in db.tasks : r.id = task_id} IN
    IF found = {} THEN Result(Error(404, "Task not found"), db_close(db, {}))
    ELSE
    LET task == task_object(CHOOSE r \in found : TRUE)
        task1 == patch_description(patch_title(task, data), data)
        vs == validate_enum_value(data_get(data, "status"), TaskStatus, "status")
    IN
    IF "status" \in DOMAIN data /\ ~vs.ok
    THEN Result(ErrorInvalid(vs), db_close(db, {task1} \ {task}))
    ELSE
    LET task2 == IF "status" \in DOMAIN data
                 THEN [task1 EXCEPT !.status = vs.enum_value] ELSE task1
        vp == validate_enum_value(data_get(data, "priority"), TaskPriority, "priority")
    IN
    IF "priority" \in DOMAIN data /\ ~vp.ok
    THEN Result(ErrorInvalid(vp), db_close(db, {task2} \ {task}))
    ELSE
    LET task3 == IF "priority" \in DOMAIN data
                 THEN [task2 EXCEPT !.priority = vp.enum_value] ELSE task2
        task4 == patch_due_date(task3, data)
    IN
    IF "category_id" \in DOMAIN data /\ by_id(db.categories, data["category_id"]) = {}
    THEN Result(Error(404, "Category not found"), db_close(db, {task4} \ {task}))
    ELSE
    LET task5 == IF "category_id" \in DOMAIN data
                 THEN [task4 EXCEPT !.category_id = data["category_id"].n] ELSE task4
    IN
    IF "user_id" \in DOMAIN data /\ by_id(db.users, data["user_id"]) = {}
    THEN Result(Error(404, "User not found"), db_close(db, {task5} \ {task}))
    ELSE
    LET task6 == IF "user_id" \in DOMAIN data
                 THEN [task5 EXCEPT !.user_id = data["user_id"].n] ELSE task5
        task7 == patch_updated_at(task6, t)
        f == flush_tasks(db, {task7})
    IN  IF ~f.ok \/ fk_violated(f.db)
        THEN Result(Error(500, "Database error"), db_rollback(db))
        ELSE Result(Ok(200, <<task_to_dict(CHOOSE r \in f.db.tasks : r.id = task_id)>>),
                    f.db)

delete_task(db, task_id) ==
    LET found == {t \in db.tasks : t.id = task_id} IN
    IF found = {} THEN Result(Error(404, "Task not found"), db_close(db, {}))
    ELSE Result(Ok(200, << >>), [db EXCEPT !.tasks = @ \ found])

(***************************************************************************)
(* app.py: get_all_tasks.  The query parameters are text.                  *)
(***************************************************************************)
\* request.args.get(key, default)
args_get(args, key, default) == IF key \in DOMAIN args THEN args[key] ELSE default

\* the allow-list with a name that is no sortable column let through
SortFields_with_title ==
    {s_due_date, s_created_at, s_priority, s_status, s_updated_at, s_title}

SortFields == {s_due_date, s_created_at, s_priority, s_status, s_updated_at}

\* getattr(Task, sort_by): the stored value ORDER BY compares
sort_column(row, sort_by) ==
    IF sort_by = s_due_date THEN row.due_date
    ELSE IF sort_by = s_created_at THEN <<row.created_at>>
    ELSE IF sort_by = s_priority THEN row.priority
    ELSE IF sort_by = s_status THEN row.status
    ELSE <<row.updated_at>>

\* query.order_by(...).all(): every sequence of the rows that respects the
\* order of the sort column; the order of rows that tie is SQLite's choice
order_by(rows, sort_by, order) ==
    LET n == Cardinality(rows)
        key(r) == sort_column(r, sort_by)
    IN  {q \in [1..n -> rows] :
            /\ \A i, j \in 1..n : i < j => q[i] # q[j]
            /\ \A i, j \in 1..n : i < j =>
                  IF order = s_desc THEN ~LexLess(key(q[i]), key(q[j]))
                                    ELSE ~LexLess(key(q[j]), key(q[i]))}

\* the set of outcomes of the handler
get_all_tasks(db, args) ==
    LET status_filter == args_get(args, "status", s_empty)
        vs == validate_enum_value(JStr(status_filter), TaskStatus, "status")
        priority_filter == args_get(args, "priority", s_empty)
        vp == validate_enum_value(JStr(priority_filter), TaskPriority, "priority")
        category_id == args_get_int(args, "category_id")
        user_id == args_get_int(args, "user_id")
        sort_by == args_get(args, "sort_by", s_created_at)
        order == lower(args_get(args, "order", s_desc))
        matching == {r \in db.tasks :
                       /\ status_filter # s_empty => r.status = vs.enum_value.name
                       /\ priority_filter # s_empty => r.priority = vp.enum_value.name
                       /\ truthy_int(category_id) => r.category_id = category_id[1]
                       /\ truthy_int(user_id) => r.user_id = user_id[1]}
    IN  IF status_filter # s_empty /\ ~vs.ok
        THEN {Result(ErrorInvalid(vs), db_close(db, {}))}
        ELSE IF priority_filter # s_empty /\ ~vp.ok
        THEN {Result(ErrorInvalid(vp), db_close(db, {}))}
        ELSE IF sort_by \notin SortFields
        THEN {Result(Error(400, "Invalid sort_by parameter"), db_close(db, {}))}
        ELSE IF order \notin {s_asc, s_desc}
        THEN {Result(Error(400, "Invalid order parameter"), db_close(db, {}))}
        ELSE {Result(Ok(200, [i \in DOMAIN q |-> task_to_dict(q[i])]), db_close(db, {})) :
                q \in order_by(matching, sort_by, order)}

(***************************************************************************)
(* Flask routing: the (method, resource) pairs of the @app.route           *)
(* decorators.  A request for a resource with a method no route lists is   *)
(* answered 405 Method Not Allowed and reaches no handler.                 *)
(***************************************************************************)
Routes ==
    { <<"POST", "users">>, <<"GET", "users/id">>, <<"GET", "users">>,
      <<"POST", "categories">>, <<"GET", "categories">>, <<"GET", "categories/id">>,
      <<"PUT", "categories/id">>, <<"DELETE", "categories/id">>,
      <<"POST", "tasks">>, <<"GET", "tasks">>, <<"GET", "tasks/id">>,
      <<"PUT", "tasks/id">>, <<"PATCH", "tasks/id">>, <<"DELETE", "tasks/id">> }

Methods == {"GET", "POST", "PUT", "PATCH", "DELETE"}
Resources == {"users", "users/id", "categories", "categories/id", "tasks", "tasks/id"}

method_not_allowed(db) == Result(Error(405, "Method Not Allowed"), db)

(***************************************************************************)
(* The requests of the model.                                              *)
(***************************************************************************)
EmptyData == [k \in {} |-> JNull]

FieldValues ==
    [ username |-> {JStr(s_empty), JStr(s_a), JStr(s_u)},
      email |-> {JStr(s_empty), JStr(s_e)},
      name |-> {JStr(s_empty), JStr(s_n)},
      title |-> {JStr(s_empty), JStr(s_t)},
      description |-> {JStr(s_d)},
      status |-> {JStr(s_Completed), JStr(s_bogus), JInt(5), JNull},
      priority |-> {JStr(s_high), JStr(s_bogus), JBool(TRUE)},
      due_date |-> {JStr(s_date2Z), JStr(s_tomorrow)},
      category_id |-> {JInt(i) : i \in Ids},
      user_id |-> {JInt(i) : i \in Ids} ]

ArgValues ==
    [ status |-> {s_pending, s_bogus},
      priority |-> {s_high},
      category_id |-> {<<48>>, <<49>>},
      user_id |-> {<<49>>},
      sort_by |-> {s_priority, s_status, s_due_date, s_created_at, s_updated_at, s_title},
      order |-> {s_asc, s_ASC, s_desc, s_up} ]

\* the functions that give every key of keys one of its values
RECURSIVE Assignments(_, _)
Assignments(keys, values) ==
    IF keys = {} THEN {EmptyData}
    ELSE LET k == CHOOSE x \in keys : TRUE
         IN  {[x \in (DOMAIN f) \cup {k} |-> IF x = k THEN v ELSE f[x]] :
                f \in Assignments(keys \ {k}, values), v \in values[k]}

\* bodies with any of the required keys and at most limit of the optional ones
Payloads(required, optional, limit) ==
    UNION {Assignments(R \cup K, FieldValues) :
             R \in SUBSET required,
             K \in {k \in SUBSET optional : Cardinality(k) <= limit}}

UserPayloads == Payloads({"username", "email"}, {}, 0)
CategoryPayloads == Payloads({"name", "user_id"}, {"description"}, MaxOptional)
TaskPayloads ==
    Payloads({"title", "category_id", "user_id"},
             {"description", "status", "priority", "due_date"}, MaxOptional)
PatchPayloads ==
    Payloads({}, {"title", "description", "status", "priority", "due_date",
                  "category_id", "user_id"}, MaxOptional + 1)
TaskArgs ==
    UNION {Assignments(K, ArgValues) :
             K \in {k \in SUBSET {"status", "priority", "category_id", "user_id",
                                  "sort_by", "order"} : Cardinality(k) <= MaxOptional + 1}}
CategoryArgs == Assignments({}, ArgValues) \cup Assignments({"user_id"}, ArgValues)

Request(op, id, data, args) == [op |-> op, id |-> id, data |-> data, args |-> args]

(***************************************************************************)
(* The state machine: one action per endpoint.                             *)
(***************************************************************************)
db_now == Store(users, categories, tasks)

\* seed_data.py, scaled down: its first user with two categories and a task
\* in each
SeedStore ==
    Store({[id |-> 1, username |-> s_a, email |-> s_e, created_at |-> 0]},
          {[id |-> 1, name |-> s_n, description |-> s_d, user_id |-> 1],
           [id |-> 2, name |-> s_n, description |-> s_empty, user_id |-> 1]},
          {[id |-> 1, title |-> s_u, description |-> s_d, status |-> s_IN_PROGRESS,
            priority |-> s_HIGH, due_date |-> <<1>>, category_id |-> 1, user_id |-> 1,
            created_at |-> -1, updated_at |-> -1],
           [id |-> 2, title |-> s_u, description |-> s_empty, status |-> s_PENDING,
            priority |-> s_LOW, due_date |-> NULL, category_id |-> 2, user_id |-> 1,
            created_at |-> 0, updated_at |-> 0]})

\* init_db() on a new file
EmptyStore == Store({}, {}, {})

Init ==
    /\ \E s \in {EmptyStore, SeedStore} :
          /\ users = s.users
          /\ categories = s.categories
          /\ tasks = s.tasks
          /\ prev = s
    /\ now = 1
    /\ req = Request("init", 0, EmptyData, EmptyData)
    /\ resp = Ok(200, << >>)
    /\ inflight = << >>

\* the clock of the model stops after MaxClock requests
CanServe == now <= MaxClock

\* a request is answered: the response and the store it leaves
Respond(request, r) ==
    /\ \A x \in r.db.users \cup r.db.categories \cup r.db.tasks : x.id \in Ids
    /\ req' = request
    /\ resp' = r.resp
    /\ users' = r.db.users
    /\ categories' = r.db.categories
    /\ tasks' = r.db.tasks
    /\ prev' = db_now
    /\ now' = now + 1
    /\ inflight' = inflight

CreateUser ==
    /\ CanServe
    /\ \E data \in UserPayloads :
           Respond(Request("create_user", 0, data, EmptyData), create_user(db_now, data, now))

GetUser ==
    /\ CanServe
    /\ \E id \in Ids : Respond(Request("get_user", id, EmptyData, EmptyData), get_user(db_now, id))

GetAllUsers ==
    /\ CanServe
    /\ Respond(Request("get_all_users", 0, EmptyData, EmptyData), get_all_users(db_now))

CreateCategory ==
    /\ CanServe
    /\ \E data \in CategoryPayloads :
           Respond(Request("create_category", 0, data, EmptyData), create_category(db_now, data))

GetAllCategories ==
    /\ CanServe
    /\ \E args \in CategoryArgs :
           Respond(Request("get_all_categories", 0, EmptyData, args),
                   get_all_categories(db_now, args))

GetCategory ==
    /\ CanServe
    /\ \E id \in Ids :
           Respond(Request("get_category", id, EmptyData, EmptyData), get_category(db_now, id))

UpdateCategory ==
    /\ CanServe
    /\ \E id \in Ids, data \in CategoryPayloads :
           Respond(Request("update_category", id, data, EmptyData),
                   update_category(db_now, id, data))

DeleteCategory ==
    /\ CanServe
    /\ \E id \in Ids :
           Respond(Request("delete_category", id, EmptyData, EmptyData),
                   delete_category(db_now, id))

CreateTask ==
    /\ CanServe
    /\ \E data \in TaskPayloads :
           Respond(Request("create_task", 0, data, EmptyData), create_task(db_now, data, now))

GetAllTasks ==
    /\ CanServe
    /\ \E args \in TaskArgs :
           \E r \in get_all_tasks(db_now, args) :
               Respond(Request("get_all_tasks", 0, EmptyData, args), r)

GetTask ==
    /\ CanServe
    /\ \E id \in Ids : Respond(Request("get_task", id, EmptyData, EmptyData), get_task(db_now, id))

UpdateTask ==
    /\ CanServe
    /\ \E id \in Ids, data \in TaskPayloads :
           Respond(Request("update_task", id, data, EmptyData),
                   update_task(db_now, id, data, now))

PartialUpdateTask ==
    /\ CanServe
    /\ \E id \in Ids, data \in PatchPayloads :
           Respond(Request("partial_update_task", id, data, EmptyData),
                   partial_update_task(db_now, id, data, now))

DeleteTask ==
    /\ CanServe
    /\ \E id \in Ids :
           Respond(Request("delete_task", id, EmptyData, EmptyData), delete_task(db_now, id))

\* a request no route serves, DELETE /api/users/<id> among them
MethodNotAllowed ==
    /\ CanServe
    /\ \E m \in Methods, res \in Resources, id \in Ids :
           /\ <<m, res>> \notin Routes
           /\ Respond(Request(m \o " " \o res, id, EmptyData, EmptyData),
                      method_not_allowed(db_now))

Next ==
    \/ CreateUser \/ GetUser \/ GetAllUsers
    \/ CreateCategory \/ GetAllCategories \/ GetCategory
    \/ UpdateCategory \/ DeleteCategory
    \/ CreateTask \/ GetAllTasks \/ GetTask
    \/ UpdateTask \/ PartialUpdateTask \/ DeleteTask
    \/ MethodNotAllowed

Spec == Init /\ [][Next]_vars

(***************************************************************************)
(* Properties.                                                             *)
(***************************************************************************)
HasUser(db, id) == \E u \in db.users : u.id = id
HasCategory(db, id) == \E c \in db.categories : c.id = id
HasTask(db, id) == \E t \in db.tasks : t.id = id
RowOf(rows, id) == CHOOSE r \in rows : r.id = id
Failed == resp.status >= 400

\* C1: in every reachable store every category's user_id names an existing
\* user and every task's category_id and user_id name an existing category
\* and an existing user.
C1_ReferentialIntegrity ==
    /\ \A c \in categories : HasUser(db_now, c.user_id)
    /\ \A t \in tasks : HasCategory(db_now, t.category_id) /\ HasUser(db_now, t.user_id)

\* the rank of an external label (task_to_dict's status, priority) in the
\* declaration order of its enumeration
DeclarationRank(enum_class, value) ==
    CHOOSE i \in 1..Len(enum_class) : enum_class[i].value = value

\* C2: a task listing sorted by priority or by status is in the declaration
\* order of the enumeration for order=asc and in the reverse order otherwise.
C2_EnumSortOrder ==
    (/\ req.op = "get_all_tasks"
     /\ resp.status = 200
     /\ "sort_by" \in DOMAIN req.args
     /\ req.args["sort_by"] \in {s_priority, s_status})
    => LET by_priority == req.args["sort_by"] = s_priority
           rank(d) == IF by_priority THEN DeclarationRank(TaskPriority, d.priority)
                      ELSE DeclarationRank(TaskStatus, d.status)
           asc == lower(args_get(req.args, "order", s_desc)) = s_asc
       IN  \A i, j \in DOMAIN resp.body :
              i < j => IF asc THEN rank(resp.body[i]) <= rank(resp.body[j])
                       ELSE rank(resp.body[i]) >= rank(resp.body[j])

\* C3: a request answered with an error (bad input, not found, storage
\* failure) leaves the persisted store exactly as it was before the request.
C3_ErrorLeavesStoreUnchanged == Failed => db_now = prev

\* C3 witness: a partial update that assigned a new title to the loaded task
\* and was then refused for its status.
C3_PatchRefusedAfterAssignment ==
    /\ req.op = "partial_update_task"
    /\ resp.status = 400
    /\ resp.field = "status"
    /\ "title" \in DOMAIN req.data
    /\ HasTask(prev, req.id)
    /\ RowOf(prev.tasks, req.id).title # req.data["title"].s

\* the required fields of a task are all in the payload, none empty
TaskFieldsPresent(data) ==
    \A f \in {"title", "category_id", "user_id"} : f \in DOMAIN data /\ ~IsEmptyStr(data[f])

\* C4: create_task with every required field present and a category_id (or a
\* user_id) that matches no row answers NotFound and leaves the tasks as they
\* were.
C4_CreateTaskUnknownReference ==
    (/\ req.op = "create_task"
     /\ TaskFieldsPresent(req.data)
     /\ \/ ~HasCategory(prev, req.data["category_id"].n)
        \/ ~HasUser(prev, req.data["user_id"].n))
    => resp.status = 404 /\ tasks = prev.tasks

\* C4 witness: the user exists, other categories exist, the named one does not.
C4_UnknownCategoryRefused ==
    /\ req.op = "create_task"
    /\ TaskFieldsPresent(req.data)
    /\ HasUser(prev, req.data["user_id"].n)
    /\ prev.categories # {}
    /\ ~HasCategory(prev, req.data["category_id"].n)
    /\ resp.status = 404
    /\ resp.error = "Category not found"

\* C5: after a successful delete_category(c) no task has category_id = c,
\* the category and the tasks that were in it are not found any more, and
\* every other category and task is as before.
C5_DeleteCategoryCascades ==
    (req.op = "delete_category" /\ resp.status = 200)
    => /\ \A t \in tasks : t.category_id # req.id
       /\ get_category(db_now, req.id).resp.status = 404
       /\ \A t \in prev.tasks :
             t.category_id = req.id => get_task(db_now, t.id).resp.status = 404
       /\ categories = {c \in prev.categories : c.id # req.id}
       /\ tasks = {t \in prev.tasks : t.category_id # req.id}

\* C5 witness: a category was deleted that had a task in it while another
\* task was outside it.
C5_DeletedCategoryHadTasks ==
    /\ req.op = "delete_category"
    /\ resp.status = 200
    /\ \E t \in prev.tasks : t.category_id = req.id
    /\ \E t \in prev.tasks : t.category_id # req.id

\* C6: the interface offers a user delete; after DELETE of an existing user
\* the user, the user's categories and the tasks of the user or of those
\* categories are gone and are not found any more.
C6_DeleteUserCascades ==
    (req.op = "DELETE users/id" /\ HasUser(prev, req.id))
    => /\ resp.status = 200
       /\ get_user(db_now, req.id).resp.status = 404
       /\ \A c \in prev.categories :
             c.user_id = req.id => get_category(db_now, c.id).resp.status = 404
       /\ \A t \in prev.tasks :
             (\/ t.user_id = req.id
              \/ \E c \in prev.categories : c.id = t.category_id /\ c.user_id = req.id)
             => get_task(db_now, t.id).resp.status = 404

TaskFields ==
    {"title", "description", "status", "priority", "due_date", "category_id", "user_id"}

\* C7: a successful partial update changes of its task only the fields named
\* in the payload and updated_at, and changes no other row.
C7_PatchFrame ==
    (req.op = "partial_update_task" /\ resp.status = 200)
    => /\ HasTask(prev, req.id) /\ HasTask(db_now, req.id)
       /\ LET old == RowOf(prev.tasks, req.id)
              new == RowOf(tasks, req.id)
          IN  /\ \A f \in TaskFields \ DOMAIN req.data : new[f] = old[f]
              /\ new.id = old.id
              /\ new.created_at = old.created_at
       /\ {t \in tasks : t.id # req.id} = {t \in prev.tasks : t.id # req.id}
       /\ categories = prev.categories
       /\ users = prev.users

\* C7 witness: a partial update without description succeeded on a task that
\* has one.
C7_PatchKeptDescription ==
    /\ req.op = "partial_update_task"
    /\ resp.status = 200
    /\ "description" \notin DOMAIN req.data
    /\ RowOf(prev.tasks, req.id).description # s_empty

\* a non-null value that is not, in any letter case, the name of a member
NotAMember(v, enum_class) ==
    /\ v.k # "null"
    /\ ~(v.k = "str" /\ \E i \in 1..Len(enum_class) : enum_class[i].name = upper(v.s))

InvalidEnumIn(data) ==
    \/ "status" \in DOMAIN data /\ NotAMember(data["status"], TaskStatus)
    \/ "priority" \in DOMAIN data /\ NotAMember(data["priority"], TaskPriority)

\* C8: a create, full update or partial update of a task whose status or
\* priority is a non-null value of any type that names no member is refused
\* as bad input naming the field, writes nothing, and never fails as a
\* storage error.  (Requests refused earlier for a missing field or an
\* unknown row count as refused.)
C8_InvalidEnumIsBadInput ==
    (/\ req.op \in {"create_task", "update_task", "partial_update_task"}
     /\ InvalidEnumIn(req.data))
    => /\ resp.status \in {400, 404}
       /\ db_now = prev
       /\ (resp.status = 400 /\ resp.fields = << >>)
             => resp.field \in {"status", "priority"}

\* C9: every persisted user has a non-empty username and email, every
\* category a non-empty name, every task a non-empty title.
C9_RequiredTextNonEmpty ==
    /\ \A u \in users : u.username # s_empty /\ u.email # s_empty
    /\ \A c \in categories : c.name # s_empty
    /\ \A t \in tasks : t.title # s_empty

RequiredFields(op) ==
    IF op = "create_user" THEN {"username", "email"}
    ELSE IF op \in {"create_category", "update_category"} THEN {"name", "user_id"}
    ELSE {"title", "category_id", "user_id"}

MissesRequired == \E f \in RequiredFields(req.op) : f \notin DOMAIN req.data

TargetExists ==
    IF req.op = "update_category" THEN HasCategory(prev, req.id) ELSE HasTask(prev, req.id)

\* C10 as claimed: in every create and full-update handler a payload that
\* misses a required field is answered with the validation error, whatever
\* the store contains.
C10_ValidationBeforeStore ==
    (/\ req.op \in {"create_user", "create_category", "update_category",
                    "create_task", "update_task"}
     /\ MissesRequired)
    => resp.status = 400

\* C10 as amended: the create handlers validate before they touch the store;
\* the full-update handlers look the target up first, answer NotFound for a
\* non-empty payload when it does not exist, and validate before anything
\* else when it exists.
C10_ValidationBeforeReferences ==
    /\ (req.op \in {"create_user", "create_category", "create_task"} /\ MissesRequired)
          => resp.status = 400 /\ db_now = prev
    /\ (req.op \in {"update_category", "update_task"} /\ MissesRequired)
          => /\ db_now = prev
             /\ resp.status = IF DOMAIN req.data # {} /\ ~TargetExists THEN 404 ELSE 400

\* C10 witness: a create that misses a field and names a user that does not
\* exist is answered with the validation error.
C10_MissingFieldBeatsUnknownUser ==
    /\ req.op = "create_category"
    /\ "name" \notin DOMAIN req.data
    /\ "user_id" \in DOMAIN req.data
    /\ ~HasUser(prev, req.data["user_id"].n)
    /\ resp.status = 400
    /\ resp.fields = <<"name">>


\* C11: no two persisted users have the same username, and create_user with
\* the username of an existing user fails and leaves the users as they were.
C11_UsernameUnique ==
    /\ \A u1, u2 \in users : u1.username = u2.username => u1 = u2
    /\ (/\ req.op = "create_user"
        /\ "username" \in DOMAIN req.data
        /\ \E u \in prev.users : u.username = req.data["username"].s)
       => Failed /\ users = prev.users

\* C11 witness: a complete create_user for a username that is taken was
\* refused.
C11_DuplicateUsernameRefused ==
    /\ req.op = "create_user"
    /\ DOMAIN req.data = {"username", "email"}
    /\ ~IsEmptyStr(req.data["email"])
    /\ \E u \in prev.users : u.username = req.data["username"].s
    /\ resp.status = 400
    /\ resp.error = "Username already exists"


\* the ids of the rows a listing returned
BodyIds == {resp.body[i].id : i \in DOMAIN resp.body}

\* a supplied integer filter holds of a row
FilterHolds(args, key, value) ==
    key \in DOMAIN args => <<value>> = args_get_int(args, key)

\* C12: a task listing returns exactly the tasks whose category_id and
\* user_id equal the supplied filter values, 0 and ids of no row included; an
\* unsupplied filter does not restrict the result.
C12_IdFiltersApplied ==
    (/\ req.op = "get_all_tasks"
     /\ resp.status = 200
     /\ DOMAIN req.args \subseteq {"category_id", "user_id", "sort_by", "order"})
    => BodyIds = {t.id : t \in {r \in tasks :
                     /\ FilterHolds(req.args, "category_id", r.category_id)
                     /\ FilterHolds(req.args, "user_id", r.user_id)}}


\* the rows of a listing are in the order of a column, descending or ascending
BodySortedBy(column, descending) ==
    \A i, j \in DOMAIN resp.body :
        i < j =>
          LET a == sort_column(RowOf(tasks, resp.body[i].id), column)
              b == sort_column(RowOf(tasks, resp.body[j].id), column)
          IN  IF descending THEN ~LexLess(a, b) ELSE ~LexLess(b, a)

BadSortBy ==
    /\ "sort_by" \in DOMAIN req.args
    /\ req.args["sort_by"] \notin
          {s_due_date, s_created_at, s_priority, s_status, s_updated_at}

BadOrder ==
    /\ "order" \in DOMAIN req.args
    /\ lower(req.args["order"]) \notin {s_asc, s_desc}

\* C13: a task listing with a sort_by outside the five sortable columns or an
\* order that is neither asc nor desc in any letter case is refused as bad
\* input, returns no row and changes nothing; without sort_by the rows are
\* ordered by created_at, without order they are in descending order.
C13_SortParameters ==
    req.op = "get_all_tasks"
    => /\ (BadSortBy \/ BadOrder)
             => resp.status = 400 /\ resp.body = << >> /\ db_now = prev
       /\ (resp.status = 200 /\ "sort_by" \notin DOMAIN req.args)
             => BodySortedBy(s_created_at,
                             lower(args_get(req.args, "order", s_desc)) = s_desc)
       /\ (resp.status = 200 /\ "order" \notin DOMAIN req.args)
             => BodySortedBy(args_get(req.args, "sort_by", s_created_at), TRUE)

\* C13 witness: a listing of a store with tasks was refused for its sort_by.
C13_UnknownSortByRefused ==
    /\ req.op = "get_all_tasks"
    /\ DOMAIN req.args = {"sort_by"}
    /\ req.args["sort_by"] = s_title
    /\ Cardinality(tasks) > 1
    /\ resp.status = 400
    /\ resp.error = "Invalid sort_by parameter"


\* C14: a task created without status is stored pending and one created
\* without priority is stored medium; a successful full or partial update
\* without status (priority) leaves the stored status (priority) as it was.
C14_EnumDefaults ==
    /\ (req.op = "create_task" /\ resp.status = 201)
          => LET new == RowOf(tasks, resp.body[1].id)
             IN  /\ "status" \notin DOMAIN req.data => new.status = s_PENDING
                 /\ "priority" \notin DOMAIN req.data => new.priority = s_MEDIUM
    /\ (req.op \in {"update_task", "partial_update_task"} /\ resp.status = 200)
          => LET old == RowOf(prev.tasks, req.id)
                 new == RowOf(tasks, req.id)
             IN  /\ "status" \notin DOMAIN req.data => new.status = old.status
                 /\ "priority" \notin DOMAIN req.data => new.priority = old.priority

\* C14 witness: a task was created from a payload with neither field.
C14_CreatedWithoutEnums ==
    /\ req.op = "create_task"
    /\ resp.status = 201
    /\ "status" \notin DOMAIN req.data
    /\ "priority" \notin DOMAIN req.data
    /\ ~HasTask(prev, resp.body[1].id)


\* prev with the description and the due date of one task replaced
WithPrior(task_id, description, due_date) ==
    [prev EXCEPT !.tasks =
        {IF r.id = task_id
         THEN [r EXCEPT !.description = description, !.due_date = due_date]
         ELSE r : r \in prev.tasks}]

\* C15: after a successful full update of a task its title, description,
\* due_date, category_id and user_id are determined by the payload alone: the
\* same PUT on a store that differs only in the task's prior description or
\* due_date stores the same five values.
C15_PutDeterminedByPayload ==
    (req.op = "update_task" /\ resp.status = 200)
    => \A description \in {s_empty, s_d}, due_date \in {NULL, <<1>>, <<2>>} :
          LET other == update_task(WithPrior(req.id, description, due_date),
                                   req.id, req.data, now)
          IN  /\ other.resp.status = 200
              /\ \A f \in {"title", "description", "due_date", "category_id", "user_id"} :
                    RowOf(other.db.tasks, req.id)[f] = RowOf(tasks, req.id)[f]


(***************************************************************************)
(* The helper functions of app.py on their own: a call is drawn, then the  *)
(* helper is applied to it.  req is the call, resp is what it returned;    *)
(* the store is empty and is not touched.                                  *)
(***************************************************************************)
\* the required_fields lists of the handlers, and two that no handler uses
RequiredLists ==
    { <<"username", "email">>, <<"name", "user_id">>,
      <<"title", "category_id", "user_id">>,
      <<"user_id", "category_id", "title">>, << >> }

HelperFieldValues ==
    [ username |-> {JStr(s_empty), JStr(s_a)},
      email |-> {JStr(s_empty), JStr(s_e)},
      name |-> {JStr(s_empty), JStr(s_n)},
      title |-> {JStr(s_empty), JStr(s_t)},
      category_id |-> {JStr(s_empty), JNull},
      user_id |-> {JStr(s_empty), JInt(0)} ]

HelperPayloads ==
    UNION {Assignments(K, HelperFieldValues) : K \in SUBSET DOMAIN HelperFieldValues}

EnumTexts ==
    { s_HIGH, s_High, s_high, s_hIgH, s_LOW, s_low, s_MEDIUM, s_Medium,
      s_PENDING, s_pending, s_COMPLETED, s_Completed, s_completed,
      s_IN_PROGRESS, s_In_Progress, s_in_progress,
      s_in_progre_sharp_s, s_IN_PROGRE_SHARP_S, s_in_progre_long_s,
      s_pend_dotless_i_ng, s_bogus, s_Bogus, s_empty }

EnumInputs == {JStr(x) : x \in EnumTexts} \cup {JNull, JInt(5), JBool(TRUE)}

EnumClasses ==
    { [enum_class |-> TaskStatus, field_name |-> "status"],
      [enum_class |-> TaskPriority, field_name |-> "priority"] }

HelperCall(op, data, required_fields, value, enum_class, field_name) ==
    [op |-> op, data |-> data, required_fields |-> required_fields,
     value |-> value, enum_class |-> enum_class, field_name |-> field_name]

InitPure ==
    /\ users = EmptyStore.users
    /\ categories = EmptyStore.categories
    /\ tasks = EmptyStore.tasks
    /\ prev = EmptyStore
    /\ now = 1
    /\ inflight = << >>
    /\ \E data \in HelperPayloads, value \in EnumInputs :
          req = HelperCall("init", data, << >>, value, << >>, "")
    /\ resp = [ok |-> TRUE, error |-> "", field |-> "", fields |-> << >>,
               enum_value |-> EnumNone]

ValidateRequiredFields ==
    /\ \E required_fields \in RequiredLists :
          /\ req' = HelperCall("validate_required_fields", req.data, required_fields,
                               req.value, << >>, "")
          /\ resp' = validate_required_fields(req.data, required_fields)
    /\ UNCHANGED <<users, categories, tasks, now, prev, inflight>>

ValidateEnumValue ==
    /\ \E e \in EnumClasses :
          /\ req' = HelperCall("validate_enum_value", req.data, << >>,
                               req.value, e.enum_class, e.field_name)
          /\ resp' = validate_enum_value(req.value, e.enum_class, e.field_name)
    /\ UNCHANGED <<users, categories, tasks, now, prev, inflight>>

NextPure == ValidateRequiredFields \/ ValidateEnumValue

SpecPure == InitPure /\ [][NextPure]_vars

\* the field is absent from the payload or maps to the empty string
AbsentOrEmpty(data, field) == field \notin DOMAIN data \/ data[field] = JStr(s_empty)

NamesAbsentOrEmpty(field) == AbsentOrEmpty(req.data, field)

\* C16: validate_required_fields fails exactly when a required field is absent
\* or maps to the empty string, and then lists every such field in the order
\* of the required list; otherwise it succeeds.
C16_RequiredFieldsListed ==
    req.op = "validate_required_fields"
    => /\ resp.ok = (\A i \in 1..Len(req.required_fields) :
                        ~AbsentOrEmpty(req.data, req.required_fields[i]))
       /\ resp.fields = SelectSeq(req.required_fields, NamesAbsentOrEmpty)
       /\ ~resp.ok => resp.error = "Missing required fields"

\* C16 witness: a call failed with an absent field and, after it in the list,
\* a field that is the empty string, while another field of the list passed.
C16_SeveralFieldsMissing ==
    /\ req.op = "validate_required_fields"
    /\ ~resp.ok
    /\ Len(resp.fields) = 2
    /\ Len(req.required_fields) = 3
    /\ resp.fields[1] \notin DOMAIN req.data
    /\ resp.fields[2] \in DOMAIN req.data


\* C18: for either enumeration, two strings that differ only in letter case
\* get the same outcome from validate_enum_value: both resolve to the same
\* member or both fail.
C18_CaseInsensitiveEnum ==
    (req.op = "validate_enum_value" /\ req.value.k = "str")
    => \A other \in EnumTexts :
          lower(other) = lower(req.value.s)
          => LET r == validate_enum_value(JStr(other), req.enum_class, req.field_name)
             IN  r.ok = resp.ok /\ r.enum_value = resp.enum_value


\* C17: partial update is idempotent: after a successful partial update the
\* same payload applied again at once also succeeds and leaves every field of
\* every row as the first application left it, except the task's updated_at,
\* which does not decrease.
C17_PatchIdempotent ==
    (req.op = "partial_update_task" /\ resp.status = 200)
    => LET again == partial_update_task(db_now, req.id, req.data, now)
           first == RowOf(tasks, req.id)
           second == RowOf(again.db.tasks, req.id)
       IN  /\ again.resp.status = 200
           /\ again.db.users = users
           /\ again.db.categories = categories
           /\ {r \in again.db.tasks : r.id # req.id} = {r \in tasks : r.id # req.id}
           /\ {r \in again.db.tasks : r.id = req.id} = {second}
           /\ [second EXCEPT !.updated_at = first.updated_at] = first
           /\ second.updated_at >= first.updated_at

\* C17 witness: a partial update changed a field of its task, and the clock
\* has moved on since.
C17_PatchChangedTask ==
    /\ req.op = "partial_update_task"
    /\ resp.status = 200
    /\ \E f \in TaskFields : RowOf(tasks, req.id)[f] # RowOf(prev.tasks, req.id)[f]
    /\ now > RowOf(tasks, req.id).updated_at


\* the response the last request would have got with this body instead
Replayed(data) ==
    IF req.op = "create_task" THEN create_task(prev, data, now - 1).resp
    ELSE IF req.op = "update_task" THEN update_task(prev, req.id, data, now - 1).resp
    ELSE partial_update_task(prev, req.id, data, now - 1).resp

\* the task the last request created or updated
WrittenTask ==
    RowOf(tasks, IF req.op = "create_task" THEN resp.body[1].id ELSE req.id)

\* C19: a create_task, update_task or partial_update_task request whose
\* due_date is present but cannot be parsed, and which succeeds when the due
\* date is replaced by a parsable one, succeeds as well, and the stored
\* due_date of its task is null afterwards, whatever it was before.
C19_UnparsableDueDateStoredNull ==
    (/\ req.op \in {"create_task", "update_task", "partial_update_task"}
     /\ "due_date" \in DOMAIN req.data
     /\ req.data["due_date"] = JStr(s_tomorrow)
     /\ Replayed([req.data EXCEPT !["due_date"] = JStr(s_date2Z)]).status \in {200, 201})
    => /\ resp.status = (IF req.op = "create_task" THEN 201 ELSE 200)
       /\ WrittenTask.due_date = NULL
       /\ resp.body[1].due_date = NULL

\* C19 witness: a partial update with an unparsable due_date succeeded on a
\* task that had a due date.
C19_PatchClearedDueDate ==
    /\ req.op = "partial_update_task"
    /\ resp.status = 200
    /\ "due_date" \in DOMAIN req.data
    /\ req.data["due_date"] = JStr(s_tomorrow)
    /\ RowOf(prev.tasks, req.id).due_date # NULL


(***************************************************************************)
(* Two requests served at the same time.  The development server runs      *)
(* each request in a thread of its own and scoped_session gives each       *)
(* thread its own session; a query holds no lock after it has returned,    *)
(* and the tables change only at a commit.  The writer is a create_task or *)
(* a partial_update_task that names a category, the deleter is a           *)
(* delete_category; each handler is cut where it last reads the tables     *)
(* before it commits.                                                      *)
(***************************************************************************)
ConcurrentWriters ==
    {[op |-> "create_task", id |-> 0, data |-> data] : data \in TaskPayloads}
    \cup {[op |-> "partial_update_task", id |-> id, data |-> data] :
            id \in Ids, data \in {d \in PatchPayloads : "category_id" \in DOMAIN d}}

\* the handler of the writer on the tables its session has seen
WriterHandler(session, w, t) ==
    IF w.op = "create_task" THEN create_task(session, w.data, t)
    ELSE partial_update_task(session, w.id, w.data, t)

InitConc ==
    /\ users = SeedStore.users
    /\ categories = SeedStore.categories
    /\ tasks = SeedStore.tasks
    /\ prev = SeedStore
    /\ now = 1
    /\ req = Request("init", 0, EmptyData, EmptyData)
    /\ resp = Ok(200, << >>)
    /\ \E w \in ConcurrentWriters, c \in Ids :
          inflight =
             [writer |-> [op |-> w.op, id |-> w.id, data |-> w.data, pc |-> "start",
                          seen |-> EmptyStore, resp |-> Ok(0, << >>)],
              deleter |-> [id |-> c, pc |-> "start", loaded |-> {},
                           resp |-> Ok(0, << >>)]]

\* a handler of the two returns its response
Completes(request, response) ==
    /\ req' = request
    /\ resp' = response
    /\ prev' = db_now
    /\ now' = now + 1

\* the writer up to its last query: the payload is validated and the rows it
\* names are looked up; a refusal is answered at once
WriterCheck ==
    LET w == inflight.writer
        r == WriterHandler(db_now, w, now)
    IN  /\ w.pc = "start"
        /\ UNCHANGED <<users, categories, tasks>>
        /\ IF r.resp.status \in {400, 404}
           THEN /\ inflight' = [inflight EXCEPT !.writer.pc = "done",
                                                !.writer.resp = r.resp]
                /\ Completes(Request(w.op, w.id, w.data, EmptyData), r.resp)
           ELSE /\ inflight' = [inflight EXCEPT !.writer.pc = "checked",
                                                !.writer.seen = db_now]
                /\ UNCHANGED <<req, resp, prev, now>>

\* db.commit() of the writer: the INSERT, or the UPDATE of the row it loaded,
\* reaches the tables as they are now; the lookups are not made again.  An
\* UPDATE that finds its row gone is a StaleDataError.
WriterCommit ==
    LET w == inflight.writer
        session == Store(w.seen.users, w.seen.categories, tasks)
        r == IF w.op = "partial_update_task" /\ \A t \in tasks : t.id # w.id
             THEN Result(Error(500, "Database error"), session)
             ELSE WriterHandler(session, w, now)
        refused == fk_violated(Store(users, categories, r.db.tasks))
        response == IF refused THEN Error(500, "Database error") ELSE r.resp
    IN  /\ w.pc = "checked"
        /\ tasks' = IF refused THEN tasks ELSE r.db.tasks
        /\ UNCHANGED <<users, categories>>
        /\ inflight' = [inflight EXCEPT !.writer.pc = "done", !.writer.resp = response]
        /\ Completes(Request(w.op, w.id, w.data, EmptyData), response)

\* the deleter up to db.delete(category): the category is looked up and the
\* cascade loads the tasks that are in it now
DeleterLoad ==
    LET d == inflight.deleter
        found == {c \in categories : c.id = d.id}
        r == delete_category(db_now, d.id)
    IN  /\ d.pc = "start"
        /\ UNCHANGED <<users, categories, tasks>>
        /\ IF found = {}
           THEN /\ inflight' = [inflight EXCEPT !.deleter.pc = "done",
                                                !.deleter.resp = r.resp]
                /\ Completes(Request("delete_category", d.id, EmptyData, EmptyData),
                             r.resp)
           ELSE /\ inflight' = [inflight EXCEPT !.deleter.pc = "loaded",
                                                !.deleter.loaded =
                                                   {t.id : t \in tasks \ r.db.tasks}]
                /\ UNCHANGED <<req, resp, prev, now>>

\* db.commit() of the deleter: the loaded tasks and the category are deleted
DeleterCommit ==
    LET d == inflight.deleter
    IN  /\ d.pc = "loaded"
        /\ categories' = {c \in categories : c.id # d.id}
        /\ tasks' = {t \in tasks : t.id \notin d.loaded}
        /\ UNCHANGED users
        /\ inflight' = [inflight EXCEPT !.deleter.pc = "done",
                                        !.deleter.resp = Ok(200, << >>)]
        /\ Completes(Request("delete_category", d.id, EmptyData, EmptyData),
                     Ok(200, << >>))

NextConc == WriterCheck \/ WriterCommit \/ DeleterLoad \/ DeleterCommit

SpecConc == InitConc /\ [][NextConc]_vars

\* C20: when a create_task, or a partial_update_task that sets category_id,
\* for category c and a concurrent delete_category(c) have both completed and
\* the category was deleted, no stored task references c.
C20_NoTaskInDeletedCategory ==
    (/\ inflight.writer.pc = "done"
     /\ inflight.deleter.pc = "done"
     /\ inflight.deleter.resp.status = 200
     /\ "category_id" \in DOMAIN inflight.writer.data
     /\ inflight.writer.data["category_id"] = JInt(inflight.deleter.id))
    => \A t \in tasks : t.category_id # inflight.deleter.id

====
